---- MODULE Spec2Model ----
(***************************************************************************)
(* A model of ismrmrd/image.py: the element-kind codec (dtype_mapping and  *)
(* its inverse), the flag operations of ImageHeader, the Image record      *)
(* (header, data buffer, attribute string) with its public operations, and *)
(* Image.from_array.                                                       *)
(*                                                                         *)
(* Representation.                                                         *)
(*  - A numpy dtype is its name ("uint16", ..., "complex128").             *)
(*  - An element is [re |-> a, im |-> b], a and b counted in halves        *)
(*    (re = 3 is 1.5), so that a cast to an integer kind (truncation) and  *)
(*    a cast to a real kind (the imaginary part is discarded) are visible. *)
(*  - A buffer is [dtype, shape, vals]: shape a sequence of 4 dimensions,  *)
(*    vals the elements in C order.                                        *)
(*  - The 64-bit flags word is the set of the positions of its 1 bits      *)
(*    (position 0 is the least significant bit).                           *)
(*  - Of the 26 header fields the model keeps the four read-only ones and  *)
(*    one of the writable scalars (version); the others are written        *)
(*    through the same setter as it.                                       *)
(***************************************************************************)
EXTENDS Integers, Sequences, FiniteSets, TLC

VARIABLES
    platformInt,   \* what np.dtype('int') is on this build: "int32" or "int64"
    cIn, cOut,     \* codec: the last call and what it returned
    flags, fset, fop, \* ImageHeader.flags, the flags set and not cleared since, last call
    img, err, op,  \* the Image, the outcome of the last call, the last call
    arr, kw, acq, res \* from_array: the array, the override, the acquisition, the result

vars == <<platformInt, cIn, cOut, flags, fset, fop, img, err, op, arr, kw, acq, res>>

None == "none"

(***************************************************************************)
(* constants.py                                                            *)
(***************************************************************************)
DATATYPE_USHORT == 1
DATATYPE_SHORT == 2
DATATYPE_UINT == 3
DATATYPE_INT == 4
DATATYPE_FLOAT == 5
DATATYPE_DOUBLE == 6
DATATYPE_CXFLOAT == 7
DATATYPE_CXDOUBLE == 8
POSITION_LENGTH == 3

\* ctypes.c_uint16 / c_uint32: a value stored in such a field is kept modulo this
UINT16_MOD == 65536
FLAG_BITS == 64

(***************************************************************************)
(* Bounds                                                                  *)
(***************************************************************************)
MaxCode == 9      \* data_type codes tried by the codec: 0..MaxCode
MaxLowFlag == 3   \* flag numbers tried: 1..MaxLowFlag and the MaxLowFlag highest
MaxDim == 1       \* Image: a dimension of a header or of a resize is in 0..MaxDim
MaxStr == 1       \* Image: an attribute string has at most MaxStr characters
MaxArrDim == 2    \* from_array: a dimension of the array is in 0..MaxArrDim, or wraps
MaxSeed == 1      \* from_array: the array's contents are one of 0..MaxSeed patterns

(***************************************************************************)
(* The element-kind codec, image.py lines 9-33                             *)
(***************************************************************************)
\* the keys of dtype_mapping in the order the dict literal inserts them
dtype_keys ==
    << DATATYPE_USHORT, DATATYPE_SHORT, DATATYPE_UINT, DATATYPE_INT,
       DATATYPE_FLOAT, DATATYPE_DOUBLE, DATATYPE_CXFLOAT, DATATYPE_CXDOUBLE >>

\* a slip: the native int entry registered as uint32, colliding with DATATYPE_UINT
dtype_mapping_dup ==
    [k \in {dtype_keys[i] : i \in DOMAIN dtype_keys} |->
        CASE k = DATATYPE_USHORT -> "uint16"
          [] k = DATATYPE_SHORT -> "int16"
          [] k = DATATYPE_UINT -> "uint32"
          [] k = DATATYPE_INT -> "uint32"
          [] k = DATATYPE_FLOAT -> "float32"
          [] k = DATATYPE_DOUBLE -> "float64"
          [] k = DATATYPE_CXFLOAT -> "complex64"
          [] k = DATATYPE_CXDOUBLE -> "complex128"]

dtype_mapping ==
    [k \in {dtype_keys[i] : i \in DOMAIN dtype_keys} |->
        CASE k = DATATYPE_USHORT -> "uint16"
          [] k = DATATYPE_SHORT -> "int16"
          [] k = DATATYPE_UINT -> "uint32"
          [] k = DATATYPE_INT -> platformInt
          [] k = DATATYPE_FLOAT -> "float32"
          [] k = DATATYPE_DOUBLE -> "float64"
          [] k = DATATYPE_CXFLOAT -> "complex64"
          [] k = DATATYPE_CXDOUBLE -> "complex128"]

\* {dtype_mapping.get(k): k for k in dtype_mapping}: a later key replaces an
\* earlier one with the same dtype
inverse_dtype_mapping ==
    LET ds == {dtype_mapping[k] : k \in DOMAIN dtype_mapping}
        last(d) == CHOOSE i \in DOMAIN dtype_keys :
                      /\ dtype_mapping[dtype_keys[i]] = d
                      /\ \A j \in DOMAIN dtype_keys :
                            dtype_mapping[dtype_keys[j]] = d => j <= i
    IN [d \in ds |-> dtype_keys[last(d)]]

Ok(v) == [ok |-> TRUE, v |-> v]
Raise(e) == [ok |-> FALSE, v |-> e]
Raised(x, e) == ~x.ok /\ x.v = e

get_dtype_from_data_type(val) ==
    IF val \in DOMAIN dtype_mapping THEN Ok(dtype_mapping[val]) ELSE Raise("TypeError")

get_data_type_from_dtype(dtype) ==
    IF dtype \in DOMAIN inverse_dtype_mapping
    THEN Ok(inverse_dtype_mapping[dtype])
    ELSE Raise("TypeError")

\* the dtypes a caller may hand in: the registered ones and some that are not
DtypeNames ==
    {"uint16", "int16", "uint32", "int32", "int64", "float32", "float64",
     "complex64", "complex128", "int8", "bool"}

PlatformInts == {"int32", "int64"}


(***************************************************************************)
(* The flag operations of ImageHeader, image.py lines 118-130.             *)
(* A Python int is the set of the positions of its 1 bits; a value stored  *)
(* in the c_uint64 field keeps the positions below FLAG_BITS.              *)
(***************************************************************************)
\* storing into the ctypes.c_uint64 field: modulo 2^64
StoreU64(bits) == {b \in bits : b < FLAG_BITS}

\* ctypes.c_uint64(1).value << (val-1)
Shl1(val) == {val - 1}

\* a - 2^k for a word a of FLAG_BITS bits, as the field stores it: when bit k is
\* clear the subtraction borrows from the next set bit above, and when there is
\* none the (negative) difference is stored modulo 2^64
SubBit(a, k) ==
    IF k \in a THEN a \ {k}
    ELSE LET above == {j \in a : j > k}
         IN IF above = {}
            THEN StoreU64(a \cup (k .. (FLAG_BITS - 1)))
            ELSE LET j == CHOOSE x \in above : \A y \in above : x <= y
                 IN (a \ {j}) \cup (k .. (j - 1))

clearAllFlags(f) == StoreU64({})

isFlagSet(f, val) == (f \cap Shl1(val)) # {}

setFlag(f, val) == StoreU64(f \cup Shl1(val))

\* a slip: the subtraction without the isFlagSet test
clearFlag_unguarded(f, val) == SubBit(f, val - 1)

clearFlag(f, val) ==
    IF isFlagSet(f, val) THEN SubBit(f, val - 1) ELSE f

\* the flag numbers tried: the lowest and the highest MaxLowFlag of 1..FLAG_BITS
FlagNumbers == (1 .. MaxLowFlag) \cup ((FLAG_BITS - MaxLowFlag + 1) .. FLAG_BITS)

(***************************************************************************)
(* Specification of the codec: calls of the two lookups                    *)
(***************************************************************************)
IdleCodec == cIn = None /\ cOut = None
IdleFlags == flags = {} /\ fset = {} /\ fop = None
IdleImage == img = None /\ err = None /\ op = None
IdleArray == arr = None /\ kw = None /\ acq = None /\ res = None

InitCodec ==
    /\ platformInt \in PlatformInts
    /\ cIn = [fwd |-> <<>>, inv |-> <<>>]
    /\ cOut = [fwd |-> <<>>, inv |-> <<>>]
    /\ IdleFlags /\ IdleImage /\ IdleArray

CallGetDtype(k) ==
    /\ cIn' = [cIn EXCEPT !.fwd = <<k>>]
    /\ cOut' = [cOut EXCEPT !.fwd = <<get_dtype_from_data_type(k)>>]
    /\ UNCHANGED <<platformInt, flags, fset, fop, img, err, op, arr, kw, acq, res>>

CallGetDataType(d) ==
    /\ cIn' = [cIn EXCEPT !.inv = <<d>>]
    /\ cOut' = [cOut EXCEPT !.inv = <<get_data_type_from_dtype(d)>>]
    /\ UNCHANGED <<platformInt, flags, fset, fop, img, err, op, arr, kw, acq, res>>

\* get_data_type_from_dtype(get_dtype_from_data_type(k)), k a code that has a dtype
CallRoundTrip(k) ==
    /\ get_dtype_from_data_type(k).ok
    /\ cIn' = [fwd |-> <<k>>, inv |-> <<get_dtype_from_data_type(k).v>>]
    /\ cOut' = [fwd |-> <<get_dtype_from_data_type(k)>>,
                inv |-> <<get_data_type_from_dtype(get_dtype_from_data_type(k).v)>>]
    /\ UNCHANGED <<platformInt, flags, fset, fop, img, err, op, arr, kw, acq, res>>

NextCodec ==
    \/ \E k \in 0 .. MaxCode : CallGetDtype(k)
    \/ \E d \in DtypeNames : CallGetDataType(d)
    \/ \E k \in 0 .. MaxCode : CallRoundTrip(k)

SpecCodec == InitCodec /\ [][NextCodec]_vars

\* the eight supported element kinds and their representations on this build
SupportedCodes ==
    {DATATYPE_USHORT, DATATYPE_SHORT, DATATYPE_UINT, DATATYPE_INT,
     DATATYPE_FLOAT, DATATYPE_DOUBLE, DATATYPE_CXFLOAT, DATATYPE_CXDOUBLE}
RegisteredDtypes ==
    {"uint16", "int16", "uint32", platformInt, "float32", "float64",
     "complex64", "complex128"}

\* C10: over the eight supported kinds get_data_type_from_dtype is a strict
\* inverse of get_dtype_from_data_type: a supported code has a registered
\* representation, looking that representation up gives the code back (so
\* distinct codes have distinct representations), and a code outside the
\* supported set, or a representation that is not registered, raises TypeError.
C10_CodecRoundTrip ==
    /\ cIn.fwd # <<>> =>
          IF cIn.fwd[1] \in SupportedCodes
          THEN cOut.fwd[1].ok /\ cOut.fwd[1].v \in RegisteredDtypes
          ELSE Raised(cOut.fwd[1], "TypeError")
    /\ cIn.inv # <<>> =>
          IF cIn.inv[1] \in RegisteredDtypes
          THEN cOut.inv[1].ok /\ cOut.inv[1].v \in SupportedCodes
          ELSE Raised(cOut.inv[1], "TypeError")
    /\ (cIn.fwd # <<>> /\ cIn.inv # <<>> /\ cOut.fwd[1].ok
          /\ cIn.inv[1] = cOut.fwd[1].v) =>
          cOut.inv[1].ok /\ cOut.inv[1].v = cIn.fwd[1]

\* C10 witness: the native-int code has been taken to its dtype and back
C10_Witness ==
    /\ cIn.fwd = <<DATATYPE_INT>>
    /\ cIn.inv = <<platformInt>>
    /\ cOut.inv # <<>> /\ cOut.inv[1].ok /\ cOut.inv[1].v = DATATYPE_INT

(***************************************************************************)
(* Specification of the flags: setFlag, clearFlag, clearAllFlags on a      *)
(* header constructed with flags = 0                                       *)
(***************************************************************************)
InitFlags ==
    /\ platformInt = "int64"
    /\ flags = {} /\ fset = {} /\ fop = [name |-> "ImageHeader", n |-> 0]
    /\ IdleCodec /\ IdleImage /\ IdleArray

CallSetFlag(n) ==
    /\ flags' = setFlag(flags, n)
    /\ fset' = fset \cup {n}
    /\ fop' = [name |-> "setFlag", n |-> n]
    /\ UNCHANGED <<platformInt, cIn, cOut, img, err, op, arr, kw, acq, res>>

CallClearFlag(n) ==
    /\ flags' = clearFlag(flags, n)
    /\ fset' = fset \ {n}
    /\ fop' = [name |-> "clearFlag", n |-> n]
    /\ UNCHANGED <<platformInt, cIn, cOut, img, err, op, arr, kw, acq, res>>

CallClearAllFlags ==
    /\ flags' = clearAllFlags(flags)
    /\ fset' = {}
    /\ fop' = [name |-> "clearAllFlags", n |-> 0]
    /\ UNCHANGED <<platformInt, cIn, cOut, img, err, op, arr, kw, acq, res>>

NextFlags ==
    \/ \E n \in FlagNumbers : CallSetFlag(n)
    \/ \E n \in FlagNumbers : CallClearFlag(n)
    \/ CallClearAllFlags

SpecFlags == InitFlags /\ [][NextFlags]_vars

\* C5: for calls with 1 <= n <= 64, setFlag(n) and clearFlag(n) change only bit
\* n-1 of flags, isFlagSet(m) is true exactly for the m set and not cleared
\* since (flags is the sum of 2^(m-1) over those m, so flags 64 and 1 give
\* (1<<63) | 1), and clearAllFlags leaves flags = 0.
C5_FlagBitIndependence ==
    /\ [](/\ \A m \in 1 .. FLAG_BITS : isFlagSet(flags, m) <=> m \in fset
          /\ flags = {m - 1 : m \in fset}
          /\ fop.name = "clearAllFlags" => flags = {})
    /\ [][fop'.name \in {"setFlag", "clearFlag"} =>
             /\ \A b \in 0 .. (FLAG_BITS - 1) :
                   b # fop'.n - 1 => (b \in flags' <=> b \in flags)
             /\ flags' \subseteq 0 .. (FLAG_BITS - 1)
             /\ (fop'.name = "setFlag" => (fop'.n - 1) \in flags')
             /\ (fop'.name = "clearFlag" => (fop'.n - 1) \notin flags')]_vars

\* C5 witness: flags 64 and 1 are set, an already-clear flag has just been
\* cleared, and flags is (1<<63) | 1
C5_Witness ==
    /\ fset = {1, FLAG_BITS}
    /\ fop = [name |-> "clearFlag", n |-> 2]
    /\ flags = {0, FLAG_BITS - 1}


(***************************************************************************)
(* numpy, as image.py uses it                                              *)
(***************************************************************************)
Kind(dtype) ==
    IF dtype \in {"complex64", "complex128"} THEN "complex"
    ELSE IF dtype \in {"float32", "float64"} THEN "float"
    ELSE "int"

Zero == [re |-> 0, im |-> 0]

\* one element converted to dtype: a complex kind keeps it, a real kind discards
\* the imaginary part, an integer kind also truncates the real part (halves)
Cast(v, dtype) ==
    CASE Kind(dtype) = "complex" -> v
      [] Kind(dtype) = "float" -> [re |-> v.re, im |-> 0]
      [] OTHER -> [re |-> 2 * (v.re \div 2), im |-> 0]

Prod(shape) == shape[1] * shape[2] * shape[3] * shape[4]

\* values an element of dtype can hold: 0, and 0.5+0.5j and 1 as dtype keeps them
Values(dtype) ==
    {Cast(v, dtype) : v \in {Zero, [re |-> 1, im |-> 1], [re |-> 2, im |-> 0]}}

\* np.empty(shape, dtype): the elements are whatever the memory held
np_empty(shape, dtype) ==
    {[dtype |-> dtype, shape |-> shape, vals |-> v] :
        v \in [1 .. Prod(shape) -> Values(dtype)]}

np_zeros(shape, dtype) ==
    [dtype |-> dtype, shape |-> shape, vals |-> [i \in 1 .. Prod(shape) |-> Zero]]

\* ndarray.astype(dtype)
astype(a, dtype) ==
    [dtype |-> dtype, shape |-> a.shape,
     vals |-> [i \in DOMAIN a.vals |-> Cast(a.vals[i], dtype)]]

\* np.resize(a, new_shape): zeros when a or the result is empty, else the
\* elements of a repeated in C order up to the new size
np_resize(a, new_shape) ==
    IF Len(a.vals) = 0 \/ Prod(new_shape) = 0
    THEN np_zeros(new_shape, a.dtype)
    ELSE [dtype |-> a.dtype, shape |-> new_shape,
          vals |-> [i \in 1 .. Prod(new_shape) |->
                       a.vals[((i - 1) % Len(a.vals)) + 1]]]

(***************************************************************************)
(* ImageHeader and Image, image.py lines 37-64 and 144-250                 *)
(***************************************************************************)
\* ImageHeader(): every field zero
ImageHeader ==
    [version |-> 0, data_type |-> 0, matrix_size |-> <<0, 0, 0>>, channels |-> 0,
     attribute_string_len |-> 0]

\* the fields of _fields_ the model keeps
FieldNames ==
    {"version", "data_type", "matrix_size", "channels", "attribute_string_len"}

\* Image.__readonly
readonly == {"data_type", "matrix_size", "channels", "attribute_string_len"}

\* Image.__ignore is the string 'matrix_size', and `field in self.__ignore` a
\* substring test: of the field names only matrix_size is a substring of it
ignore == {"matrix_size"}

\* the shape of the buffer a header declares
HeadShape(h) ==
    <<h.channels, h.matrix_size[3], h.matrix_size[2], h.matrix_size[1]>>

\* Image.__init__(head, attribute_string), head <<>> for None, up to the contents
\* of the buffer: [ok, v, head, shape, dtype] with v the exception raised, or the
\* header kept and the shape and dtype np.empty is called with
\* a slip: the length test left out
Image_new_nocheck(head, attribute_string) ==
    LET h == IF head = <<>>
             THEN [ImageHeader EXCEPT !.data_type = DATATYPE_CXFLOAT]
             ELSE head[1]
        shape == IF head = <<>> THEN <<1, 1, 1, 0>> ELSE HeadShape(h)
        dt == get_dtype_from_data_type(h.data_type)
    IN IF ~dt.ok
       THEN [ok |-> FALSE, v |-> "TypeError", head |-> h, shape |-> shape, dtype |-> None]
       ELSE [ok |-> TRUE, v |-> None, head |-> h, shape |-> shape, dtype |-> dt.v]

Image_new(head, attribute_string) ==
    LET h == IF head = <<>>
             THEN [ImageHeader EXCEPT !.data_type = DATATYPE_CXFLOAT]
             ELSE head[1]
        shape == IF head = <<>> THEN <<1, 1, 1, 0>> ELSE HeadShape(h)
        dt == get_dtype_from_data_type(h.data_type)
    IN IF ~dt.ok
       THEN [ok |-> FALSE, v |-> "TypeError", head |-> h, shape |-> shape, dtype |-> None]
       ELSE IF Len(attribute_string) # h.attribute_string_len
       THEN [ok |-> FALSE, v |-> "ValueError", head |-> h, shape |-> shape, dtype |-> dt.v]
       ELSE [ok |-> TRUE, v |-> None, head |-> h, shape |-> shape, dtype |-> dt.v]

\* the Images Image(head, attribute_string) may return: one for each contents of
\* the np.empty buffer; none when it raises
Image_init(head, attribute_string) ==
    LET n == Image_new(head, attribute_string)
    IN IF ~n.ok THEN {}
       ELSE {[head |-> n.head, data |-> d, attribute_string |-> attribute_string] :
                d \in np_empty(n.shape, n.dtype)}

\* Image.setDataType(val): [ok, v], v the Image afterwards or the exception
Image_setDataType(self, val) ==
    LET dt == get_dtype_from_data_type(val)
    IN IF ~dt.ok THEN Raise("TypeError")
       ELSE Ok([self EXCEPT !.data = astype(self.data, dt.v)])

\* Image.resize(nc, nz, ny, nx): the buffer alone
Image_resize(self, nc, nz, ny, nx) ==
    [self EXCEPT !.data = np_resize(self.data, <<nc, nz, ny, nx>>)]

\* Image.setHead(hdr): the header is replaced first; when setDataType raises,
\* the Image keeps the new header and the old buffer ([ok, v, self])
Image_setHead(self, hdr) ==
    LET s1 == [self EXCEPT !.head = hdr]
        r == Image_setDataType(s1, s1.head.data_type)
    IN IF ~r.ok THEN [ok |-> FALSE, v |-> r.v, self |-> s1]
       ELSE [ok |-> TRUE, v |-> None,
             self |-> Image_resize(r.v, r.v.head.channels, r.v.head.matrix_size[3],
                                   r.v.head.matrix_size[2], r.v.head.matrix_size[1])]

\* a slip: the setter built for a read-only field writes like any other
Image_setter_open(self, name, val) ==
    IF name \in ignore THEN [ok |-> FALSE, v |-> "AttributeError", self |-> self]
    ELSE [ok |-> TRUE, v |-> None,
          self |-> [self EXCEPT !.head[name] = val % UINT16_MOD]]

\* assignment to the property `name` of an Image: for matrix_size the class's own
\* property, which has no setter; else the setter __init__ installed (the kept
\* writable fields are c_uint16)
Image_setter(self, name, val) ==
    IF name \in ignore THEN [ok |-> FALSE, v |-> "AttributeError", self |-> self]
    ELSE IF name \in readonly
    THEN [ok |-> FALSE, v |-> "AttributeError", self |-> self]
    ELSE [ok |-> TRUE, v |-> None,
          self |-> [self EXCEPT !.head[name] = val % UINT16_MOD]]

\* the attribute_string setter; val is a str, which str() returns as it is
Image_set_attribute_string(self, val) ==
    [self EXCEPT !.attribute_string = val, !.head.attribute_string_len = Len(val)]

(***************************************************************************)
(* Specification of the Image: construction and the public operations      *)
(***************************************************************************)
\* the inputs tried
Dims == 0 .. MaxDim
\* all dimensions 1 but at most one, or all 0 as in ImageHeader()
Shapes ==
    {<<0, 0, 0, 0>>} \cup
    {[i \in 1 .. 4 |-> IF i = k THEN d ELSE 1] : k \in 1 .. 4, d \in Dims}
Codes == {0, DATATYPE_USHORT, DATATYPE_CXFLOAT}
\* the empty string and one of MaxStr characters
StrLens == {0, MaxStr}
Strings == UNION {[1 .. n -> {"x"}] : n \in StrLens}
Headers ==
    {[ImageHeader EXCEPT !.data_type = c, !.channels = s[1],
                         !.matrix_size = <<s[4], s[3], s[2]>>,
                         !.attribute_string_len = n] :
        c \in Codes, s \in Shapes, n \in StrLens}
WriteValues == {0, UINT16_MOD + 1}

Untouched == <<platformInt, cIn, cOut, flags, fset, fop, arr, kw, acq, res>>

\* an Image as a constructor returns it: Image(), or Image(head, attribute_string)
Init ==
    /\ platformInt = "int64"
    /\ img \in Image_init(<<>>, <<>>) \cup
                UNION {Image_init(<<h>>, s) : h \in Headers, s \in Strings}
    /\ err = None
    /\ op = [name |-> "Image"]
    /\ IdleCodec /\ IdleFlags /\ IdleArray

SetHead(hdr) ==
    /\ LET r == Image_setHead(img, hdr)
       IN img' = r.self /\ err' = r.v
    /\ op' = [name |-> "setHead", head |-> hdr]
    /\ UNCHANGED Untouched

SetDataType(val) ==
    /\ LET r == Image_setDataType(img, val)
       IN /\ img' = IF r.ok THEN r.v ELSE img
          /\ err' = IF r.ok THEN None ELSE r.v
    /\ op' = [name |-> "setDataType", val |-> val]
    /\ UNCHANGED Untouched

Resize(shape) ==
    /\ img' = Image_resize(img, shape[1], shape[2], shape[3], shape[4])
    /\ err' = None
    /\ op' = [name |-> "resize", shape |-> shape]
    /\ UNCHANGED Untouched

WriteField(name, val) ==
    /\ LET r == Image_setter(img, name, val)
       IN img' = r.self /\ err' = r.v
    /\ op' = [name |-> "setattr", field |-> name, val |-> val]
    /\ UNCHANGED Untouched

SetAttributeString(s) ==
    /\ img' = Image_set_attribute_string(img, s)
    /\ err' = None
    /\ op' = [name |-> "attribute_string", val |-> s]
    /\ UNCHANGED Untouched

Next ==
    \/ \E h \in Headers : SetHead(h)
    \/ \E c \in Codes : SetDataType(c)
    \/ \E s \in Shapes : Resize(s)
    \/ \E f \in FieldNames, v \in WriteValues : WriteField(f, v)
    \/ \E s \in Strings : SetAttributeString(s)

Spec == Init /\ [][Next]_vars


\* C1: after resize(nc, nz, ny, nx) the header's count fields equal the new
\* shape (channels = nc, matrix_size = (nx, ny, nz)), so that the buffer has the
\* shape the header declares.
C1_ResizeUpdatesHeader ==
    op.name = "resize" =>
        /\ img.head.channels = op.shape[1]
        /\ img.head.matrix_size = <<op.shape[4], op.shape[3], op.shape[2]>>
        /\ img.data.shape = HeadShape(img.head)

\* C2: in every state a public operation that returned leaves, the header's
\* data_type is the code of the buffer's element type.
C2_DataTypeMatchesBuffer ==
    err = None =>
        /\ get_data_type_from_dtype(img.data.dtype).ok
        /\ get_data_type_from_dtype(img.data.dtype).v = img.head.data_type

\* C3: in every state a public operation that returned leaves, the attribute
\* string is as long as the header's attribute_string_len says.
C3_AttributeStringLength ==
    err = None => Len(img.attribute_string) = img.head.attribute_string_len

\* C4: assigning to data_type, matrix_size, channels or attribute_string_len raises
\* AttributeError whatever the value and leaves the Image as it was; assigning
\* to any other field succeeds and changes that field alone, to the value as the
\* field's type stores it.
C4_ReadOnlyFields ==
    [][op'.name = "setattr" =>
          IF op'.field \in {"data_type", "matrix_size", "channels", "attribute_string_len"}
          THEN err' = "AttributeError" /\ img' = img
          ELSE /\ err' = None
               /\ img'.head[op'.field] = op'.val % UINT16_MOD
               /\ img' = [img EXCEPT !.head[op'.field] = img'.head[op'.field]]]_vars

\* C4 witness: an assignment to data_type has been refused
C4_Witness ==
    /\ op.name = "setattr"
    /\ op.field = "data_type"
    /\ op.val = UINT16_MOD + 1
    /\ err = "AttributeError"
    /\ img.head.data_type = DATATYPE_CXFLOAT

\* C8: a setHead(new_header) that returns leaves the header equal to new_header
\* and the buffer of new_header's element type and shape, every element zero.
C8_SetHeadResets ==
    (op.name = "setHead" /\ err = None) =>
        /\ img.head = op.head
        /\ img.data.dtype = get_dtype_from_data_type(op.head.data_type).v
        /\ img.data.shape = HeadShape(op.head)
        /\ \A i \in DOMAIN img.data.vals : img.data.vals[i] = Zero


(***************************************************************************)
(* Specification of the constructor: Image(head, attribute_string) on a    *)
(* header and a string                                                     *)
(***************************************************************************)
CtorHeaders ==
    {[ImageHeader EXCEPT !.data_type = c, !.channels = s[1],
                         !.matrix_size = <<s[4], s[3], s[2]>>,
                         !.attribute_string_len = n] :
        c \in 0 .. MaxCode, s \in Shapes, n \in StrLens}

\* img is <<>> until the call returns an Image
InitConstruct ==
    /\ platformInt = "int64"
    /\ img = <<>>
    /\ err = None
    /\ \E h \in CtorHeaders, s \in Strings :
          op = [name |-> "pending", head |-> h, attribute_string |-> s]
    /\ IdleCodec /\ IdleFlags /\ IdleArray

Construct ==
    /\ op.name = "pending"
    /\ LET n == Image_new(<<op.head>>, op.attribute_string)
       IN /\ err' = n.v
          /\ IF n.ok
             THEN \E i \in Image_init(<<op.head>>, op.attribute_string) : img' = <<i>>
             ELSE img' = <<>>
    /\ op' = [op EXCEPT !.name = "Image"]
    /\ UNCHANGED Untouched

NextConstruct == Construct

SpecConstruct == InitConstruct /\ [][NextConstruct]_vars

\* C9 as claimed: Image(header, string) raises the inconsistent-length error
\* (ValueError) exactly when the string's length differs from
\* header.attribute_string_len, a failure leaves no record, and when the lengths
\* agree the record exists with its buffer of the header's shape and element kind.
C9_LengthErrorExactly ==
    op.name = "Image" =>
        /\ err = "ValueError" <=>
              Len(op.attribute_string) # op.head.attribute_string_len
        /\ err # None => img = <<>>
        /\ Len(op.attribute_string) = op.head.attribute_string_len =>
              /\ img # <<>>
              /\ img[1].data.shape = HeadShape(op.head)
              /\ get_data_type_from_dtype(img[1].data.dtype).v = op.head.data_type

\* C9 amended: Image(header, string) raises TypeError when header.data_type is
\* not a supported code, whatever the string; for a supported code it raises
\* ValueError exactly when the string's length differs from
\* header.attribute_string_len; a failure leaves no record; otherwise the record
\* holds a copy of the header, the string, and a buffer of the header's shape
\* and element kind.
C9_ConstructChecks ==
    op.name = "Image" =>
        IF op.head.data_type \notin SupportedCodes
        THEN err = "TypeError" /\ img = <<>>
        ELSE IF Len(op.attribute_string) # op.head.attribute_string_len
        THEN err = "ValueError" /\ img = <<>>
        ELSE /\ err = None
             /\ img # <<>>
             /\ img[1].head = op.head
             /\ img[1].attribute_string = op.attribute_string
             /\ img[1].data.shape = HeadShape(op.head)
             /\ Len(img[1].data.vals) = Prod(HeadShape(op.head))
             /\ get_data_type_from_dtype(img[1].data.dtype).ok
             /\ get_data_type_from_dtype(img[1].data.dtype).v = op.head.data_type

\* C9 witness: a supported header with a string of another length was refused
C9_Witness ==
    /\ op.name = "Image"
    /\ op.head.data_type = DATATYPE_FLOAT
    /\ op.head.attribute_string_len = 0
    /\ Len(op.attribute_string) = MaxStr
    /\ err = "ValueError"
    /\ img = <<>>


(***************************************************************************)
(* Image.from_array, image.py lines 148-173, and                           *)
(* ImageHeader.from_acquisition, lines 66-116.                             *)
(* An array is [dtype, shape, seed]: shape a sequence of 1 to 4            *)
(* dimensions, and seed fixes the contents (ArrElem).  A keyword argument  *)
(* is [field, val], val a sequence (of one number for a scalar field);     *)
(* field is None when no keyword is given.                                 *)
(***************************************************************************)
\* the element at 0-based C-order position i: every position differs from its
\* neighbours, and the value is one the array's dtype can hold
ArrElem(a, i) ==
    Cast([re |-> (a.seed + i) % 4, im |-> (a.seed + i + 1) % 3], a.dtype)

Reverse(q) == [i \in 1 .. Len(q) |-> q[Len(q) + 1 - i]]

\* a slip: the shape taken in array order, not reversed
shape_to_header_format_noreverse(shape) ==
    LET with_defaults(q) ==
            [nchannels |-> IF Len(q) >= 4 THEN q[4] ELSE 1,
             matrix_size |-> << IF Len(q) >= 1 THEN q[1] ELSE 1,
                                IF Len(q) >= 2 THEN q[2] ELSE 1,
                                IF Len(q) >= 3 THEN q[3] ELSE 1 >>]
    IN with_defaults(shape)

\* shape_to_header_format(array): with_defaults(*reversed shape)
shape_to_header_format(shape) ==
    LET with_defaults(q) ==
            [nchannels |-> IF Len(q) >= 4 THEN q[4] ELSE 1,
             matrix_size |-> << IF Len(q) >= 1 THEN q[1] ELSE 1,
                                IF Len(q) >= 2 THEN q[2] ELSE 1,
                                IF Len(q) >= 3 THEN q[3] ELSE 1 >>]
    IN with_defaults(Reverse(shape))

\* a slip: dict(kwargs, **image_data), the derived value winning
merged_kwargs_derived_first(image_data, kwarg, field) == image_data[field]

\* dict(image_data, **kwargs)[field], field one of image_data's keys
merged_kwargs(image_data, kwarg, field) ==
    IF kwarg.field = field THEN kwarg.val ELSE image_data[field]

\* ImageHeader.from_acquisition(acquisition, **dict(image_data, **kwargs)): the
\* acquisition's fields copied, then each keyword stored in its ctypes field
from_acquisition(acquisition, image_data, kwarg) ==
    [version |->
        IF kwarg.field = "version" THEN kwarg.val[1] % UINT16_MOD
        ELSE acquisition.version,
     data_type |-> merged_kwargs(image_data, kwarg, "data_type")[1] % UINT16_MOD,
     channels |-> merged_kwargs(image_data, kwarg, "channels")[1] % UINT16_MOD,
     matrix_size |->
        [i \in 1 .. POSITION_LENGTH |->
            merged_kwargs(image_data, kwarg, "matrix_size")[i] % UINT16_MOD],
     attribute_string_len |-> 0]

\* the array's shape with 1s in front up to 4 dimensions
Pad4(shape) ==
    [j \in 1 .. 4 |-> IF j > 4 - Len(shape) THEN shape[j - (4 - Len(shape))] ELSE 1]

\* numpy's broadcasting of a source shape to a target shape
Broadcastable(src, target) ==
    \A j \in 1 .. 4 : Pad4(src)[j] = target[j] \/ Pad4(src)[j] = 1

\* the 0-based C-order position in the source of the element that lands at the
\* 1-based position i of the target
SourceIndex(src, target, i) ==
    LET p == Pad4(src)
        t4 == (i - 1) % target[4]
        t3 == ((i - 1) \div target[4]) % target[3]
        t2 == ((i - 1) \div (target[4] * target[3])) % target[2]
        t1 == (i - 1) \div (target[4] * target[3] * target[2])
        s1 == IF p[1] = 1 THEN 0 ELSE t1
        s2 == IF p[2] = 1 THEN 0 ELSE t2
        s3 == IF p[3] = 1 THEN 0 ELSE t3
        s4 == IF p[4] = 1 THEN 0 ELSE t4
    IN ((s1 * p[2] + s2) * p[3] + s3) * p[4] + s4

\* image.data[:] = array: [ok, v, data]; every element of the buffer is written,
\* converted to the buffer's dtype
setitem_all(data, array) ==
    IF ~Broadcastable(array.shape, data.shape)
    THEN [ok |-> FALSE, v |-> "ValueError", data |-> <<>>]
    ELSE [ok |-> TRUE, v |-> None,
          data |-> << [dtype |-> data.dtype, shape |-> data.shape,
                       vals |-> [i \in 1 .. Prod(data.shape) |->
                                   Cast(ArrElem(array, SourceIndex(array.shape, data.shape, i)),
                                        data.dtype)]] >>]

\* Image.from_array(array, acquisition, **kwargs): [ok, v, image], image <<>> when
\* it raises.  The buffer Image(head=header) allocates is written in full, so its
\* first contents do not show.
from_array(array, acquisition, kwarg) ==
    LET fmt == shape_to_header_format(array.shape)
        dt == get_data_type_from_dtype(array.dtype)
        image_data == [data_type |-> <<dt.v>>, channels |-> <<fmt.nchannels>>,
                       matrix_size |-> fmt.matrix_size]
        header == from_acquisition(acquisition, image_data, kwarg)
        n == Image_new(<<header>>, <<>>)
        w == setitem_all([dtype |-> n.dtype, shape |-> n.shape], array)
    IN IF ~dt.ok THEN [ok |-> FALSE, v |-> "TypeError", image |-> <<>>]
       ELSE IF ~n.ok THEN [ok |-> FALSE, v |-> n.v, image |-> <<>>]
       ELSE IF ~w.ok THEN [ok |-> FALSE, v |-> w.v, image |-> <<>>]
       ELSE [ok |-> TRUE, v |-> None,
             image |-> << [head |-> n.head, data |-> w.data[1],
                           attribute_string |-> <<>>] >>]

(***************************************************************************)
(* Specification of from_array: one call on an array and a keyword         *)
(***************************************************************************)
\* a dimension of the array: 0..MaxArrDim, or one the c_uint16 count wraps
ArrDims == (0 .. MaxArrDim) \cup {UINT16_MOD + 1}
ArrShapes == UNION {[1 .. n -> ArrDims] : n \in 1 .. 4}
ArrDtypes == {"uint16", "float32", "complex64", "int32"}
Arrays ==
    {[dtype |-> d, shape |-> s, seed |-> x] :
        d \in ArrDtypes, s \in ArrShapes, x \in 0 .. MaxSeed}
NoKwarg == [field |-> None, val |-> <<>>]
Kwargs ==
    {NoKwarg}
    \cup {[field |-> "channels", val |-> <<c>>] : c \in {0, 2}}
    \cup {[field |-> "matrix_size", val |-> m] : m \in {<<2, 1, 1>>, <<1, 2, 1>>}}
    \cup {[field |-> "data_type", val |-> <<c>>] :
             c \in {0, DATATYPE_USHORT, DATATYPE_FLOAT, DATATYPE_CXFLOAT}}
    \cup {[field |-> "version", val |-> <<2>>]}

InitFromArray ==
    /\ platformInt \in PlatformInts
    /\ arr \in Arrays
    /\ kw \in Kwargs
    /\ acq = [version |-> 1]
    /\ res = [state |-> "pending"]
    /\ IdleCodec /\ IdleFlags /\ IdleImage

CallFromArray ==
    /\ res.state = "pending"
    /\ LET r == from_array(arr, acq, kw)
       IN res' = [state |-> "returned", ok |-> r.ok, v |-> r.v, image |-> r.image]
    /\ UNCHANGED <<platformInt, cIn, cOut, flags, fset, fop, img, err, op, arr, kw, acq>>

NextFromArray == CallFromArray

SpecFromArray == InitFromArray /\ [][NextFromArray]_vars


DerivedFields == {"channels", "matrix_size", "data_type"}
Wraps(shape) == \E j \in DOMAIN shape : shape[j] >= UINT16_MOD
ArrSize(shape) ==
    LET p == Pad4(shape) IN p[1] * p[2] * p[3] * p[4]

\* C6 as claimed: for an array A of a registered element type with 1 to 4
\* dimensions, from_array(A) returns a record whose data has A's shape and
\* values and whose data_type is the code registered for A's element type.
C6_FromArrayIdentical ==
    (res.state = "returned" /\ kw = NoKwarg /\ arr.dtype \in RegisteredDtypes) =>
        /\ res.ok
        /\ res.image[1].data.shape = arr.shape
        /\ \A i \in DOMAIN res.image[1].data.vals :
              res.image[1].data.vals[i] = ArrElem(arr, i - 1)
        /\ res.image[1].head.data_type = get_data_type_from_dtype(arr.dtype).v

\* C6 amended: for an array A of a registered element type with 1 to 4
\* dimensions, each below 65536, from_array(A) returns a record whose data has
\* A's shape with 1s in front up to 4 dimensions, A's element type and A's
\* values in the same C order, whose data_type is the code registered for A's
\* element type and whose channels and matrix_size are that 4-dimensional
\* shape; with a dimension of 65536 or more it raises ValueError.
C6_FromArrayPadded ==
    (res.state = "returned" /\ kw = NoKwarg /\ arr.dtype \in RegisteredDtypes) =>
        IF Wraps(arr.shape)
        THEN ~res.ok /\ res.v = "ValueError" /\ res.image = <<>>
        ELSE /\ res.ok
             /\ res.image[1].data.shape = Pad4(arr.shape)
             /\ res.image[1].data.dtype = arr.dtype
             /\ Len(res.image[1].data.vals) = ArrSize(arr.shape)
             /\ \A i \in DOMAIN res.image[1].data.vals :
                   res.image[1].data.vals[i] = ArrElem(arr, i - 1)
             /\ res.image[1].head.data_type = get_data_type_from_dtype(arr.dtype).v
             /\ res.image[1].head.channels = Pad4(arr.shape)[1]
             /\ res.image[1].head.matrix_size =
                   <<Pad4(arr.shape)[4], Pad4(arr.shape)[3], Pad4(arr.shape)[2]>>

\* C6 witness: a 2 x 2 complex array has become a 1 x 1 x 2 x 2 buffer
C6_Witness ==
    /\ res.state = "returned"
    /\ kw = NoKwarg
    /\ arr.dtype = "complex64"
    /\ arr.shape = <<2, 2>>
    /\ res.ok
    /\ res.image[1].data.shape = <<1, 1, 2, 2>>
    /\ res.image[1].data.vals[4] = ArrElem(arr, 3)

\* C7 as claimed: from_array with a keyword naming channels, matrix_size or
\* data_type raises the invalid-field-value error (TypeError) and returns no
\* record.
C7_OverrideRejected ==
    (res.state = "returned" /\ kw.field \in DerivedFields) =>
        ~res.ok /\ res.v = "TypeError" /\ res.image = <<>>

\* the header counts and code from_array ends with under the keyword
KwShape ==
    LET p == [j \in 1 .. 4 |-> Pad4(arr.shape)[j] % UINT16_MOD]
    IN CASE kw.field = "channels" -> <<kw.val[1] % UINT16_MOD, p[2], p[3], p[4]>>
         [] kw.field = "matrix_size" ->
               <<p[1], kw.val[3] % UINT16_MOD, kw.val[2] % UINT16_MOD,
                 kw.val[1] % UINT16_MOD>>
         [] OTHER -> p
KwCode ==
    IF kw.field = "data_type" THEN kw.val[1] % UINT16_MOD
    ELSE get_data_type_from_dtype(arr.dtype).v

\* C7 amended: a keyword naming channels, matrix_size or data_type (with a
\* value of the field's type) is not rejected: it replaces the value derived
\* from the array.  The header carries the keyword's value, the buffer is
\* allocated from that header, and the array is broadcast into it and converted
\* to its element type.  from_array raises only TypeError, when the array's
\* element type is not registered or the resulting data_type is not a supported
\* code, and ValueError, when the array does not broadcast to the resulting
\* shape; then it returns no record.
C7_OverrideApplied ==
    (res.state = "returned" /\ kw.field \in DerivedFields) =>
        IF arr.dtype \notin RegisteredDtypes \/ KwCode \notin SupportedCodes
        THEN ~res.ok /\ res.v = "TypeError" /\ res.image = <<>>
        ELSE IF \E j \in 1 .. 4 :
                   Pad4(arr.shape)[j] # KwShape[j] /\ Pad4(arr.shape)[j] # 1
        THEN ~res.ok /\ res.v = "ValueError" /\ res.image = <<>>
        ELSE /\ res.ok
             /\ res.image[1].head.data_type = KwCode
             /\ HeadShape(res.image[1].head) = KwShape
             /\ res.image[1].data.shape = KwShape
             /\ res.image[1].data.dtype = get_dtype_from_data_type(KwCode).v
             /\ Len(res.image[1].data.vals) = Prod(KwShape)
             /\ \A i \in DOMAIN res.image[1].data.vals :
                   res.image[1].data.vals[i] =
                      Cast(ArrElem(arr, SourceIndex(arr.shape, KwShape, i)),
                           res.image[1].data.dtype)

\* C7 witness: channels=2 on a 2-element array gave a record with 2 channels
C7_Witness ==
    /\ res.state = "returned"
    /\ kw = [field |-> "channels", val |-> <<2>>]
    /\ arr.shape = <<2>>
    /\ res.ok
    /\ res.image[1].head.channels = 2
    /\ res.image[1].data.shape = <<2, 1, 1, 2>>

====
